---- MODULE Spec2Model ----
(***************************************************************************)
(* Model of models.py of dreamer-pytorch: the recurrent state-space model  *)
(* rollout (TransitionModel.forward), the squashed policy distribution     *)
(* (ActionModel.forward) and its Monte-Carlo approximator (SampleDist).    *)
(*                                                                         *)
(* Tensors.  A tensor of the rollout is modelled with batch size 1 and     *)
(* feature size 1: <<v>> is the tensor holding the integer v, and <<>> is  *)
(* torch.empty(0), the placeholder the lists are filled with.  Reals are   *)
(* modelled by integers; softplus, log and tanh are rounded to integers.   *)
(* The layers of torch.nn (Linear, GRUCell) are deterministic functions of *)
(* their inputs and of the module's parameters; they are modelled by       *)
(* integer affine maps whose coefficients are the parameters.              *)
(***************************************************************************)
EXTENDS Integers, Sequences, FiniteSets, TLC

\* ------------------------------------------------------------------ bounds
\* Longest action sequence of a forward call (T - 1).
MaxActions == 2
\* Largest sample count a SampleDist statistic is expanded over.
MaxSamples == 2

\* ------------------------------------------------------- input value sets
StateVals == {-1, 2}
BeliefVals == {1}
ActionVals == {1}
EmbedVals == {0, 1}
MaskVals == {0, 1}
\* Values of one torch.randn_like / rsample noise draw.
Noise == {-1, 1}

\* Parameters of the TransitionModel after construction, with its floor.
ParamSet ==
  { [min_std_dev |-> 1, w_s |-> 1, w_a |-> 1, b_sa |-> 0, w_ih |-> 1, w_hh |-> 1,
     w_bp |-> 1, b_bp |-> -2, w_pm |-> 1, b_pm |-> 0, w_ps |-> -1, b_ps |-> 1,
     w_qb |-> 1, w_qo |-> 2, b_q |-> -3, w_qm |-> 1, b_qm |-> 0, w_qs |-> -2,
     b_qs |-> 3],
    [min_std_dev |-> 2, w_s |-> 2, w_a |-> -1, b_sa |-> 1, w_ih |-> 1, w_hh |-> -1,
     w_bp |-> -1, b_bp |-> 3, w_pm |-> 2, b_pm |-> -1, w_ps |-> 1, b_ps |-> -2,
     w_qb |-> 1, w_qo |-> -1, b_q |-> 0, w_qm |-> -1, b_qm |-> 1, w_qs |-> 1,
     b_qs |-> -1] }

\* An Optional[Tensor] argument: None, or a time-indexed sequence.
None == [given |-> FALSE, val |-> <<>>]
Some(s) == [given |-> TRUE, val |-> s]

SeqsOf(S, n) == [1..n -> S]

\* The observation embeddings a call with n actions is given: one per action
\* (the caller's framing), one per slot (n + 1), or one too few.
ObsSeqs(n) ==
  SeqsOf(EmbedVals, n) \cup SeqsOf(EmbedVals, n + 1)
  \cup (IF n >= 1 THEN SeqsOf(EmbedVals, n - 1) ELSE {})

\* ---------------------------------------------------------------- helpers
Max(a, b) == IF a >= b THEN a ELSE b
Min(a, b) == IF a <= b THEN a ELSE b
Abs(x) == IF x >= 0 THEN x ELSE -x

\* Python indexing x[i] of a sequence with 0-based i: negative i counts from
\* the end, anything outside -len..len-1 raises IndexError.
PyInRange(s, i) == (-Len(s) <= i) /\ (i < Len(s))
PyGet(s, i) == IF i >= 0 THEN s[i + 1] ELSE s[Len(s) + i + 1]

\* F.relu
act_fn(x) == Max(0, x)

\* The raw scale used as it is, without the softplus.
softplusSkipped(x) == x

\* F.softplus(x) = log(1 + exp(x)), rounded to the nearest integer.
softplus(x) == IF x <= -1 THEN 0 ELSE IF x <= 1 THEN 1 ELSE x

\* self.fc_embed_state_action(torch.cat([_state, actions[t]], dim=1))
fc_embed_state_action(p, s, a) == p.w_s * s + p.w_a * a + p.b_sa

\* self.rnn(hidden, beliefs[t])
rnn(p, x, h) == p.w_ih * x + p.w_hh * h

\* self.fc_embed_belief_prior(beliefs[t + 1])
fc_embed_belief_prior(p, b) == p.w_bp * b + p.b_bp

\* torch.chunk(self.fc_state_prior(hidden), 2, dim=1): <<mean, raw std-dev>>
fc_state_prior(p, h) == <<p.w_pm * h + p.b_pm, p.w_ps * h + p.b_ps>>

\* self.fc_embed_belief_posterior(torch.cat([beliefs[t + 1], observations[.]], dim=1))
fc_embed_belief_posterior(p, b, o) == p.w_qb * b + p.w_qo * o + p.b_q

\* torch.chunk(self.fc_state_posterior(hidden), 2, dim=1): <<mean, raw std-dev>>
fc_state_posterior(p, h) == <<p.w_qm * h + p.b_qm, p.w_qs * h + p.b_qs>>

\* ------------------------------------------------ TransitionModel.forward
\* [torch.empty(0)] * T
EmptyList(T) == [i \in 1..T |-> <<>>]

\* The prior state selected whether or not observations are supplied.
SelectStatePrior(st, t, observations) == PyGet(st.prior_states, t)[1]

\* Line 58: the previous state of iteration t.
SelectState(st, t, observations) ==
  IF ~observations.given THEN PyGet(st.prior_states, t)[1]
  ELSE PyGet(st.posterior_states, t)[1]

\* The mask never applied.
MaskStateSkipped(s, t, nonterminals) == s

\* The state kept on a terminal flag and zeroed otherwise.
MaskStateInverted(s, t, nonterminals) ==
  IF ~nonterminals.given THEN s ELSE s * (1 - PyGet(nonterminals.val, t))

\* Line 59: mask the previous state when a nonterminal flag is supplied.
MaskState(s, t, nonterminals) ==
  IF ~nonterminals.given THEN s ELSE s * PyGet(nonterminals.val, t)

\* The observation of the slot being written, without the shift by t_.
ObsIndexNext(t) == t + 1

\* Line 72-73: the index of the observation iteration t consumes.
ObsIndex(t) == (t - 1) + 1

\* The seven lists before any call.
NoLists ==
  [beliefs |-> <<>>, prior_states |-> <<>>, prior_means |-> <<>>,
   prior_std_devs |-> <<>>, posterior_states |-> <<>>, posterior_means |-> <<>>,
   posterior_std_devs |-> <<>>]

\* The state of the seven lists after lines 54-55.
InitLists(T, a_prev_state, a_prev_belief) ==
  [beliefs |-> [EmptyList(T) EXCEPT ![1] = <<a_prev_belief>>],
   prior_states |-> [EmptyList(T) EXCEPT ![1] = <<a_prev_state>>],
   prior_means |-> EmptyList(T),
   prior_std_devs |-> EmptyList(T),
   posterior_states |-> [EmptyList(T) EXCEPT ![1] = <<a_prev_state>>],
   posterior_means |-> EmptyList(T),
   posterior_std_devs |-> EmptyList(T)]

\* Iteration t raises IndexError when an index it uses is out of range.
IterRaises(t, args) ==
  \/ args.nonterminals.given /\ ~PyInRange(args.nonterminals.val, t)
  \/ args.observations.given /\ ~PyInRange(args.observations.val, ObsIndex(t))

\* The iteration with the posterior sampled from the prior's noise draw
\* instead of a draw of its own.
LoopBodySharedNoise(p, st, t, args, e_prior, e_post) ==
  LET s0 == SelectState(st, t, args.observations)
      s == MaskState(s0, t, args.nonterminals)
      hidden == act_fn(fc_embed_state_action(p, s, PyGet(args.actions, t)))
      belief == rnn(p, hidden, PyGet(st.beliefs, t)[1])
      pr == fc_state_prior(p, act_fn(fc_embed_belief_prior(p, belief)))
      pr_std == softplus(pr[2]) + p.min_std_dev
      st1 == [st EXCEPT !.beliefs[t + 2] = <<belief>>,
                        !.prior_means[t + 2] = <<pr[1]>>,
                        !.prior_std_devs[t + 2] = <<pr_std>>,
                        !.prior_states[t + 2] = <<pr[1] + pr_std * e_prior>>]
  IN IF ~args.observations.given THEN st1
     ELSE LET o == PyGet(args.observations.val, ObsIndex(t))
              po == fc_state_posterior(p, act_fn(fc_embed_belief_posterior(p, belief, o)))
              po_std == softplus(po[2]) + p.min_std_dev
          IN [st1 EXCEPT !.posterior_means[t + 2] = <<po[1]>>,
                         !.posterior_std_devs[t + 2] = <<po_std>>,
                         !.posterior_states[t + 2] = <<po[1] + po_std * e_prior>>]

\* Lines 58-76: one iteration of the loop, with the two noise draws e_prior
\* and e_post (torch.randn_like); writes slot t + 1 of the lists.
LoopBody(p, st, t, args, e_prior, e_post) ==
  LET s0 == SelectState(st, t, args.observations)
      s == MaskState(s0, t, args.nonterminals)
      hidden == act_fn(fc_embed_state_action(p, s, PyGet(args.actions, t)))
      belief == rnn(p, hidden, PyGet(st.beliefs, t)[1])
      pr == fc_state_prior(p, act_fn(fc_embed_belief_prior(p, belief)))
      pr_std == softplus(pr[2]) + p.min_std_dev
      st1 == [st EXCEPT !.beliefs[t + 2] = <<belief>>,
                        !.prior_means[t + 2] = <<pr[1]>>,
                        !.prior_std_devs[t + 2] = <<pr_std>>,
                        !.prior_states[t + 2] = <<pr[1] + pr_std * e_prior>>]
  IN IF ~args.observations.given THEN st1
     ELSE LET o == PyGet(args.observations.val, ObsIndex(t))
              po == fc_state_posterior(p, act_fn(fc_embed_belief_posterior(p, belief, o)))
              po_std == softplus(po[2]) + p.min_std_dev
          IN [st1 EXCEPT !.posterior_means[t + 2] = <<po[1]>>,
                         !.posterior_std_devs[t + 2] = <<po_std>>,
                         !.posterior_states[t + 2] = <<po[1] + po_std * e_post>>]

\* The whole list, seed slot included.
EmittedWithSeed(list) == list

\* list[1:]
Emitted(list) == SubSeq(list, 2, Len(list))

\* torch.stack(tensors, dim=0) raises on an empty list and on tensors of
\* different sizes.
StackRaises(list) ==
  \/ list = <<>>
  \/ \E i \in DOMAIN list : Len(list[i]) # Len(list[1])

\* Lines 79-82: the lists that are stacked, in order.
ReturnLists(st, observations) ==
  <<Emitted(st.beliefs), Emitted(st.prior_states), Emitted(st.prior_means),
    Emitted(st.prior_std_devs)>>
  \o (IF observations.given
      THEN <<Emitted(st.posterior_states), Emitted(st.posterior_means),
             Emitted(st.posterior_std_devs)>>
      ELSE <<>>)

ReturnRaises(st, observations) ==
  \E k \in DOMAIN ReturnLists(st, observations) :
     StackRaises(ReturnLists(st, observations)[k])

\* ------------------------------------------------------------ ActionModel
\* The policy tensors have the batch elements Batch and the action
\* dimensions Feat: x[b][f].
Batch == 1..2
Feat == 1..2

\* mean_scale, min_std and init_std of an ActionModel after construction.
PolicySet ==
  { [mean_scale |-> 5, min_std |-> 1, init_std |-> 5],
    [mean_scale |-> 2, min_std |-> 2, init_std |-> 1] }

\* The two halves of self.fc5(hidden), per batch element and dimension.
RawMeanVals == {-3, 1}
RawStdVals == {-7, 0, 3}

\* The default of SampleDist.__init__'s samples.
DefaultSamples == 100

\* np.log(np.exp(init_std) - 1), rounded, for init_std >= 1: 0.54 for 1,
\* 1.85 for 2, 4.99 for 5, so the rounded value is init_std.
raw_init_std(init_std) == init_std

\* torch.tanh, rounded to an integer.
Tanh(x) == Max(-1, Min(1, x))

\* mean_scale * torch.tanh(mean / mean_scale), rounded: the identity near 0,
\* saturating at +-mean_scale.
BoundMean(mean_scale, x) == Max(-mean_scale, Min(mean_scale, x))

\* Line 237.
PolicyStd(cfg, raw) == softplus(raw + raw_init_std(cfg.init_std)) + cfg.min_std

\* Lines 235-244: the distribution ActionModel.forward builds from fc5's output.
PolicyDist(cfg, raw_mean, raw_std) ==
  [mean |-> [b \in Batch |-> [f \in Feat |-> BoundMean(cfg.mean_scale, raw_mean[b][f])]],
   std |-> [b \in Batch |-> [f \in Feat |-> PolicyStd(cfg, raw_std[b][f])]],
   tanh |-> TRUE]

\* ------------------------------------------------------------- SampleDist
\* Distributions a SampleDist is constructed around directly: independent
\* normals, with or without the tanh transform.
DistSet ==
  { [mean |-> [b \in Batch |-> [f \in Feat |-> 0]],
     std |-> [b \in Batch |-> [f \in Feat |-> 1]], tanh |-> TRUE],
    [mean |-> [b \in Batch |-> [f \in Feat |-> b - f]],
     std |-> [b \in Batch |-> [f \in Feat |-> f]], tanh |-> FALSE] }

\* Values of one standard-normal draw of rsample.
SampleNoise == {0, 2}

\* SampleDist.__init__ (lines 253-255): both arguments are stored as given.
SampleDistNew(dist, samples) == [_dist |-> dist, _samples |-> samples]

\* self._dist.expand((self._samples, *batch_shape)) raises on a negative size.
ExpandRaises(sd) == sd._samples < 0

\* dist.rsample() of the expanded distribution, from the noise eps[s][b][f].
RSample(d, n, eps) ==
  [s \in 1..n |-> [b \in Batch |-> [f \in Feat |->
     LET x == d.mean[b][f] + d.std[b][f] * eps[s][b][f]
     IN IF d.tanh THEN Tanh(x) ELSE x]]]

\* Natural logarithm of a positive integer, rounded.
Log(n) == IF n <= 1 THEN 0 ELSE IF n <= 4 THEN 1 ELSE IF n <= 12 THEN 2 ELSE 3

\* Normal(mean, std).log_prob(x), rounded.
NormalLogProb(x, mean, std) ==
  0 - (((x - mean) * (x - mean)) \div (2 * std * std)) - Log(std) - 1

\* TanhTransform: log |d tanh(x) / dx| = log(1 - tanh(x)^2), rounded.
LogAbsDetJacobian(x) == IF x = 0 THEN 0 ELSE 1 - 2 * Abs(x)

\* One dimension of dist.log_prob: the transformed distribution inverts the
\* transform (atanh of a rounded tanh is the value itself) and subtracts the
\* log-determinant.
DimLogProb(d, b, f, y) ==
  IF d.tanh
  THEN NormalLogProb(y, d.mean[b][f], d.std[b][f]) - LogAbsDetJacobian(y)
  ELSE NormalLogProb(y, d.mean[b][f], d.std[b][f])

RECURSIVE SumOver(_, _)
\* The sum of g[i] for i in 1..n.
SumOver(g, n) == IF n = 0 THEN 0 ELSE g[n] + SumOver(g, n - 1)

\* dist.log_prob(sample): Independent(dist, 1) sums over the last dimension,
\* one value per sample and batch element.
LogProb(d, n, smp) ==
  [s \in 1..n |-> [b \in Batch |->
     SumOver([f \in Feat |-> DimLogProb(d, b, f, smp[s][b][f])], Cardinality(Feat))]]

\* torch.argmax(logprob, dim=0) for batch element b: the first index of a
\* maximal value.
ArgMax(lp, n, b) ==
  CHOOSE s \in 1..n :
    /\ \A r \in 1..n : lp[r][b] <= lp[s][b]
    /\ \A r \in 1..(s - 1) : lp[r][b] < lp[s][b]

\* The argmax laid out along the feature axis instead of the batch axis.
IndicesByFeature(lp, n) == [b \in Batch |-> [f \in Feat |-> ArgMax(lp, n, f)]]

\* Line 277: argmax over the sample axis, reshaped to (1, batch, 1) and
\* expanded over the features.
Indices(lp, n) == [b \in Batch |-> [f \in Feat |-> ArgMax(lp, n, b)]]

\* Line 278: torch.gather(sample, 0, indices).squeeze(0).
Gather(smp, idx) == [b \in Batch |-> [f \in Feat |-> smp[idx[b][f]][b][f]]]

\* torch.mean(x, 0) of n values per entry, rounded down; NaN for n = 0.
NaN == [nan |-> TRUE, val |-> <<>>]
Num(v) == [nan |-> FALSE, val |-> v]

RECURSIVE Rollout(_, _, _, _, _, _)
\* Lines 57-76: the iterations t .. T-2 from the lists st, with the noise
\* sequences pe (prior) and qe (posterior); raised when an iteration raises.
Rollout(p, st, t, a, pe, qe) ==
  IF t >= Len(a.actions) THEN [raised |-> FALSE, st |-> st]
  ELSE IF IterRaises(t, a) THEN [raised |-> TRUE, st |-> st]
  ELSE Rollout(p, LoopBody(p, st, t, a, pe[t + 1], qe[t + 1]), t + 1, a, pe, qe)

\* Lines 50-82: the outcome of a whole call as a function of its arguments
\* and of the noise it draws.
ForwardResult(p, a, pe, qe) ==
  LET r == Rollout(p, InitLists(Len(a.actions) + 1, a.prev_state, a.prev_belief),
                   0, a, pe, qe)
  IN IF r.raised \/ ReturnRaises(r.st, a.observations)
     THEN [raised |-> TRUE, hidden |-> <<>>]
     ELSE [raised |-> FALSE, hidden |-> ReturnLists(r.st, a.observations)]

\* A TransitionModel and an ActionModel after construction: the two
\* configurations checked, one per floor.
ModelSet ==
  { [transition_model |-> p, action_model |-> c] :
      <<p, c>> \in {<<p, c>> \in ParamSet \X PolicySet : p.min_std_dev = c.min_std} }

NoDist == [mean |-> <<>>, std |-> <<>>]

VARIABLES
  params,             \* the TransitionModel's parameters and min_std_dev
  pc,                 \* "idle", "loop", "returned", "raised"
  args,               \* the arguments of the forward call
  T, t,               \* line 52 and the loop variable
  lists,              \* the seven lists of line 54
  fed,                \* _state of each iteration so far (lines 58 and 59)
  prior_eps, post_eps,\* the noise drawn by each iteration so far
  writes,             \* per slot, the number of iterations that wrote it
  hidden_out,         \* the returned list, <<>> until the call returns
  action_model,       \* the ActionModel's mean_scale, min_std and init_std
  base_dist,          \* base_dist of ActionModel.forward (line 238)
  sd_pc,              \* "none", "built", "done", "raised"
  sd,                 \* the SampleDist object: _dist and _samples
  sample, logprob,    \* the tensors of the statistic that ran
  stat                \* the statistic returned: its name and value

tm_vars == <<pc, args, T, t, lists, fed, prior_eps, post_eps, writes, hidden_out>>
sd_vars == <<sd_pc, sd, sample, logprob, stat>>
vars == <<params, action_model, base_dist, tm_vars, sd_vars>>

NoArgs == [prev_state |-> 0, actions |-> <<>>, prev_belief |-> 0,
           observations |-> None, nonterminals |-> None]

Init ==
  /\ \E m \in ModelSet : params = m.transition_model /\ action_model = m.action_model
  /\ base_dist = NoDist
  /\ sd_pc = "none"
  /\ sd = SampleDistNew(<<>>, 0)
  /\ sample = <<>> /\ logprob = <<>>
  /\ stat = [op |-> "none", nan |-> FALSE, val |-> <<>>]
  /\ pc = "idle"
  /\ args = NoArgs
  /\ T = 0 /\ t = 0
  /\ lists = NoLists
  /\ fed = <<>> /\ prior_eps = <<>> /\ post_eps = <<>>
  /\ writes = <<>>
  /\ hidden_out = <<>>

\* Lines 50-55: the call, up to the loop.
Forward ==
  /\ pc = "idle" /\ sd_pc = "none"
  /\ \E n \in 0..MaxActions :
     \E a_state \in StateVals, a_belief \in BeliefVals, a_actions \in SeqsOf(ActionVals, n),
        a_obs \in {None} \cup {Some(s) : s \in ObsSeqs(n)},
        a_non \in {None} \cup {Some(s) : s \in SeqsOf(MaskVals, n)} :
       /\ args' = [prev_state |-> a_state, actions |-> a_actions, prev_belief |-> a_belief,
                   observations |-> a_obs, nonterminals |-> a_non]
       /\ T' = n + 1
       /\ lists' = InitLists(n + 1, a_state, a_belief)
       /\ writes' = [i \in 1..(n + 1) |-> 0]
  /\ t' = 0
  /\ pc' = "loop"
  /\ UNCHANGED <<params, action_model, base_dist, sd_vars, fed, prior_eps, post_eps, hidden_out>>

\* Lines 57-76: one iteration of the loop.
Iterate ==
  /\ pc = "loop"
  /\ t < T - 1
  /\ ~IterRaises(t, args)
  /\ \E e_prior \in Noise, e_post \in (IF args.observations.given THEN Noise ELSE {0}) :
       /\ lists' = LoopBody(params, lists, t, args, e_prior, e_post)
       /\ prior_eps' = Append(prior_eps, e_prior)
       /\ post_eps' = Append(post_eps, e_post)
  /\ fed' = Append(fed,
        [selected |-> SelectState(lists, t, args.observations),
         masked |-> MaskState(SelectState(lists, t, args.observations), t, args.nonterminals)])
  /\ writes' = [writes EXCEPT ![t + 2] = @ + 1]
  /\ t' = t + 1
  /\ UNCHANGED <<params, action_model, base_dist, sd_vars, pc, args, T, hidden_out>>

\* An index of the iteration is out of range: IndexError leaves the call.
IterateRaise ==
  /\ pc = "loop"
  /\ t < T - 1
  /\ IterRaises(t, args)
  /\ pc' = "raised"
  /\ UNCHANGED <<params, action_model, base_dist, sd_vars, args, T, t, lists, fed, prior_eps, post_eps, writes, hidden_out>>

\* Lines 79-82: stack slots 1..T-1 and return.
Return ==
  /\ pc = "loop"
  /\ t = T - 1
  /\ ~ReturnRaises(lists, args.observations)
  /\ hidden_out' = ReturnLists(lists, args.observations)
  /\ pc' = "returned"
  /\ UNCHANGED <<params, action_model, base_dist, sd_vars, args, T, t, lists, fed, prior_eps, post_eps, writes>>

\* torch.stack raises: RuntimeError leaves the call, nothing is returned.
ReturnRaise ==
  /\ pc = "loop"
  /\ t = T - 1
  /\ ReturnRaises(lists, args.observations)
  /\ pc' = "raised"
  /\ UNCHANGED <<params, action_model, base_dist, sd_vars, args, T, t, lists, fed, prior_eps, post_eps, writes, hidden_out>>

\* ActionModel.forward (lines 226-246): the backbone's output, the bounded
\* mean, the floored std-dev, and the SampleDist around the distribution.
ActionForward ==
  /\ pc = "idle" /\ sd_pc = "none"
  /\ \E raw_mean \in [Batch -> [Feat -> RawMeanVals]],
        raw_std \in [Batch -> [Feat -> RawStdVals]] :
       LET dist == PolicyDist(action_model, raw_mean, raw_std)
       IN /\ base_dist' = [mean |-> dist.mean, std |-> dist.std]
          /\ sd' = SampleDistNew(dist, DefaultSamples)
  /\ sd_pc' = "built"
  /\ UNCHANGED <<params, action_model, tm_vars, sample, logprob, stat>>

\* SampleDist(dist, samples) constructed by a caller.
SampleDistInit ==
  /\ pc = "idle" /\ sd_pc = "none"
  /\ \E d \in DistSet, n \in (-1)..MaxSamples : sd' = SampleDistNew(d, n)
  /\ sd_pc' = "built"
  /\ UNCHANGED <<params, action_model, base_dist, tm_vars, sample, logprob, stat>>

\* The noise of one rsample over n samples.
NoiseTensors(n) == [1..n -> [Batch -> [Feat -> SampleNoise]]]

\* SampleDist.mean (lines 264-268).
Mean ==
  /\ sd_pc = "built" /\ sd._samples <= MaxSamples
  /\ IF ExpandRaises(sd)
     THEN sd_pc' = "raised" /\ UNCHANGED <<sample, logprob, stat>>
     ELSE /\ \E eps \in NoiseTensors(sd._samples) :
               sample' = RSample(sd._dist, sd._samples, eps)
          /\ stat' = IF sd._samples = 0 THEN [op |-> "mean"] @@ NaN
                     ELSE [op |-> "mean"] @@
                          Num([b \in Batch |-> [f \in Feat |->
                                 SumOver([s \in 1..sd._samples |-> sample'[s][b][f]],
                                         sd._samples) \div sd._samples]])
          /\ sd_pc' = "done"
          /\ UNCHANGED logprob
  /\ UNCHANGED <<params, action_model, base_dist, tm_vars, sd>>

\* SampleDist.mode (lines 270-278).
Mode ==
  /\ sd_pc = "built" /\ sd._samples <= MaxSamples
  /\ IF ExpandRaises(sd)
     THEN sd_pc' = "raised" /\ UNCHANGED <<sample, logprob, stat>>
     ELSE /\ \E eps \in NoiseTensors(sd._samples) :
               sample' = RSample(sd._dist, sd._samples, eps)
          /\ logprob' = LogProb(sd._dist, sd._samples, sample')
          /\ IF sd._samples = 0
             THEN sd_pc' = "raised" /\ UNCHANGED stat
             ELSE /\ stat' = [op |-> "mode"] @@
                             Num(Gather(sample', Indices(logprob', sd._samples)))
                  /\ sd_pc' = "done"
  /\ UNCHANGED <<params, action_model, base_dist, tm_vars, sd>>

\* SampleDist.entropy (lines 280-284).
Entropy ==
  /\ sd_pc = "built" /\ sd._samples <= MaxSamples
  /\ IF ExpandRaises(sd)
     THEN sd_pc' = "raised" /\ UNCHANGED <<sample, logprob, stat>>
     ELSE /\ \E eps \in NoiseTensors(sd._samples) :
               sample' = RSample(sd._dist, sd._samples, eps)
          /\ logprob' = LogProb(sd._dist, sd._samples, sample')
          /\ stat' = IF sd._samples = 0 THEN [op |-> "entropy"] @@ NaN
                     ELSE [op |-> "entropy"] @@
                          Num([b \in Batch |->
                                 0 - (SumOver([s \in 1..sd._samples |-> logprob'[s][b]],
                                              sd._samples) \div sd._samples)])
          /\ sd_pc' = "done"
  /\ UNCHANGED <<params, action_model, base_dist, tm_vars, sd>>

Next ==
  \/ Forward \/ Iterate \/ IterateRaise \/ Return \/ ReturnRaise
  \/ ActionForward \/ SampleDistInit \/ Mean \/ Mode \/ Entropy

Spec == Init /\ [][Next]_vars

\* ------------------------------------------------------------- properties
\* The slots 2..t+1 (1-based) are the ones the finished iterations wrote.
Done == 1..Len(fed)

\* The list the previous state is read from, by line 58.
Selected == IF args.observations.given THEN lists.posterior_states ELSE lists.prior_states

\* The flag of iteration i (1-based), 1 when no mask is supplied.
Flag(i) == IF args.nonterminals.given THEN args.nonterminals.val[i] ELSE 1

AllOnes == args.nonterminals.given /\ \A i \in DOMAIN args.nonterminals.val : args.nonterminals.val[i] = 1

\* C1: a forward call with zero actions does not raise; it returns, and every
\* returned sequence is empty.
C1_EmptyRolloutReturns ==
  (pc \in {"returned", "raised"} /\ Len(args.actions) = 0)
    => /\ pc = "returned"
       /\ Len(hidden_out) = (IF args.observations.given THEN 7 ELSE 4)
       /\ \A k \in DOMAIN hidden_out : hidden_out[k] = <<>>

\* C2: every sequence a forward call returns has as many entries as there are
\* actions, these are the slots 1..T-1 of its list, none of them is the
\* placeholder, and each was written by exactly one iteration.
C2_OutputLength ==
  pc = "returned"
    => /\ Len(hidden_out) = (IF args.observations.given THEN 7 ELSE 4)
       /\ \A k \in DOMAIN hidden_out :
            /\ Len(hidden_out[k]) = Len(args.actions)
            /\ \A i \in DOMAIN hidden_out[k] : hidden_out[k][i] # <<>> /\ writes[i + 1] = 1
       /\ \A i \in 1..Len(args.actions) :
            /\ hidden_out[1][i] = lists.beliefs[i + 1]
            /\ hidden_out[2][i] = lists.prior_states[i + 1]
       /\ writes[1] = 0

C2_Witness ==
  /\ pc = "returned" /\ Len(args.actions) >= 2
  /\ args.observations.given /\ args.nonterminals.given

\* C3: with observations, the posterior parameters of slot t+1 are computed
\* from beliefs[t+1] and the observation of index t, for every finished
\* iteration t.
C3_ObservationAlignment ==
  args.observations.given =>
    \A i \in Done :
      LET po == fc_state_posterior(params,
                  act_fn(fc_embed_belief_posterior(params, lists.beliefs[i + 1][1],
                                                   args.observations.val[i])))
      IN /\ lists.posterior_means[i + 1] = <<po[1]>>
         /\ lists.posterior_std_devs[i + 1] = <<softplus(po[2]) + params.min_std_dev>>

C3_Witness ==
  /\ pc = "returned" /\ args.observations.given /\ Len(args.actions) >= 2
  /\ Len(args.observations.val) = Len(args.actions) + 1
  /\ args.observations.val[1] # args.observations.val[2]
  /\ args.observations.val[2] # args.observations.val[3]
  /\ lists.posterior_means[2] # lists.posterior_means[3]

\* C4: when the nonterminal flag of iteration t is zero, the state fed into
\* the state-action embedding is zero whatever the selected state is, and
\* beliefs[t] enters the recurrent update unmasked.
C4_TerminalMasksState ==
  \A i \in Done :
    (args.nonterminals.given /\ args.nonterminals.val[i] = 0)
      => /\ fed[i].masked = 0
         /\ lists.beliefs[i + 1] =
              <<rnn(params, act_fn(fc_embed_state_action(params, 0, args.actions[i])),
                    lists.beliefs[i][1])>>

C4_Witness ==
  \E i \in Done :
    /\ args.nonterminals.given /\ args.nonterminals.val[i] = 0
    /\ i >= 2
    /\ fed[i].selected # 0
    /\ lists.beliefs[i][1] # 0

\* C5: a call with a mask of ones returns what the same call returns with no
\* mask, for the same arguments and the same noise.
C5_AllOnesMaskIsNoMask ==
  (pc = "returned" /\ AllOnes)
    => LET r == ForwardResult(params, [args EXCEPT !.nonterminals = None], prior_eps, post_eps)
       IN ~r.raised /\ r.hidden = hidden_out

C5_Witness ==
  /\ pc = "returned" /\ AllOnes /\ Len(args.actions) >= 2
  /\ args.observations.given
  /\ \A i \in Done : fed[i].selected # 0

\* C6: every prior and posterior std-dev written is at least min_std_dev, and
\* every std-dev of the base Gaussian of ActionModel.forward is at least min_std.
C6_StdDevFloor ==
  /\ \A i \in DOMAIN lists.prior_std_devs :
       lists.prior_std_devs[i] # <<>> => lists.prior_std_devs[i][1] >= params.min_std_dev
  /\ \A i \in DOMAIN lists.posterior_std_devs :
       lists.posterior_std_devs[i] # <<>> => lists.posterior_std_devs[i][1] >= params.min_std_dev
  /\ \A b \in DOMAIN base_dist.std : \A f \in DOMAIN base_dist.std[b] :
       base_dist.std[b][f] >= action_model.min_std

C6_Witness ==
  /\ pc = "returned" /\ args.observations.given /\ Len(args.actions) >= 2
  /\ \E i \in 2..T : lists.prior_std_devs[i][1] = params.min_std_dev
  /\ \E i \in 2..T : lists.prior_std_devs[i][1] > params.min_std_dev
  /\ \E i \in 2..T : lists.posterior_std_devs[i][1] = params.min_std_dev
  /\ \E i \in 2..T : lists.posterior_std_devs[i][1] > params.min_std_dev

\* C7: for each batch element, mode() returns one whole drawn sample of that
\* batch element, one whose log-density is maximal along the sample axis.
C7_ModeIsADrawnSample ==
  (sd_pc = "done" /\ stat.op = "mode")
    => \A b \in Batch :
         \E s \in 1..sd._samples :
           /\ stat.val[b] = sample[s][b]
           /\ \A r \in 1..sd._samples : logprob[r][b] <= logprob[s][b]

C7_Witness ==
  /\ sd_pc = "done" /\ stat.op = "mode" /\ sd._samples >= 2
  /\ stat.val[1] = sample[1][1] /\ stat.val[1] # sample[2][1]
  /\ stat.val[2] = sample[2][2] /\ stat.val[2] # sample[1][2]
  /\ sample[1][1][1] # sample[2][1][1] /\ sample[1][1][2] # sample[2][1][2]

\* C8: no SampleDist exists with a sample count <= 0 (its construction
\* fails), and no statistic is returned for such a count.
C8_FailFast ==
  /\ sd_pc = "built" => sd._samples > 0
  /\ sd._samples <= 0 => stat.op = "none"

\* C9: the state selected at every iteration is posterior_states[t] with
\* observations and prior_states[t] without, and slot 0 of both lists is the
\* given initial state.
C9_StateSelection ==
  pc # "idle" =>
    /\ lists.prior_states[1] = <<args.prev_state>>
    /\ lists.posterior_states[1] = <<args.prev_state>>
    /\ lists.beliefs[1] = <<args.prev_belief>>
    /\ \A i \in Done : <<fed[i].selected>> = Selected[i]

C9_Witness ==
  /\ pc = "returned" /\ args.observations.given /\ Len(args.actions) >= 2
  /\ lists.prior_states[2] # lists.posterior_states[2]
  /\ lists.posterior_states[2] # <<args.prev_state>>

\* C10: with observations, changing only the prior noise changes no returned
\* sequence but the prior states; without observations the belief of slot
\* t+1 is computed from the prior state of slot t.
C10_PriorSamplesNotFedBack ==
  /\ (pc = "returned" /\ args.observations.given)
       => \A pe \in SeqsOf(Noise, Len(args.actions)) :
            LET r == ForwardResult(params, args, pe, post_eps)
            IN /\ ~r.raised
               /\ \A k \in {1, 3, 4, 5, 6, 7} : r.hidden[k] = hidden_out[k]
  /\ (pc = "returned" /\ ~args.observations.given)
       => \A i \in Done :
            lists.beliefs[i + 1] =
              <<rnn(params,
                    act_fn(fc_embed_state_action(params, lists.prior_states[i][1] * Flag(i),
                                                 args.actions[i])),
                    lists.beliefs[i][1])>>

C10_Witness ==
  /\ pc = "returned" /\ args.observations.given /\ Len(args.actions) >= 2
  /\ ~args.nonterminals.given
  /\ \E pe \in SeqsOf(Noise, Len(args.actions)) :
       /\ pe[1] # prior_eps[1]
       /\ ForwardResult(params, args, pe, post_eps).hidden[2][1] # hidden_out[2][1]
  /\ hidden_out[2][1] # hidden_out[5][1]
====
